---- MODULE Spec2Model ----
(***************************************************************************)
(* Koito: the Spotify bulk importer (ImportSpotifyFile) and the Spotify    *)
(* artwork client (token cache, searchEntity, artist and album cascades),  *)
(* modelled from src/internal/importer/spotify.go.                         *)
(*                                                                         *)
(* Time is counted in whole seconds in the importer (the code compares a   *)
(* time.Duration with 5*time.Second) and in whole minutes in the client    *)
(* (the code compares time.Now() with tokenExpiry minus 5*time.Minute).    *)
(***************************************************************************)
EXTENDS Integers, Sequences, FiniteSets, TLC

VARIABLES
    \* ---- ImportSpotifyFile (one run) ----
    ipc,           \* position of the run: "loop", "filter", "submit", "done"
    n,             \* number of records of export the range loop has taken
    item,          \* the loop variable (NoItem outside an iteration)
    window,        \* cfg: the import time window
    lastImported,  \* map[string]time.Time of line 49
    calls,         \* number of catalog.SubmitListen calls made so far
    opts,          \* SubmitListenOpts of the latest call
    ret,           \* value returned by ImportSpotifyFile (NoRet while running)
    ctxDone,       \* whether ctx, the context given to the run, is cancelled
    \* history variables of the run (not program state)
    accepted,      \* key -> timestamp of the last record SubmitListen accepted
    dups,          \* number of records discarded by the duplicate check
    failure,       \* what SubmitListen's error was and after how many calls
    order,         \* positions in the file of the records submitted, in the
                   \* order of the SubmitListen calls
    \* ---- SpotifyClient (shared by every goroutine) ----
    accessToken,   \* c.accessToken: 0 is "", k > 0 the token of the k-th issue
    tokenExpiry,   \* c.tokenExpiry, in minutes
    creds,         \* cfg: whether client id and secret are configured
    now,           \* the clock, in minutes
    requestQueue,  \* c.requestQueue: its concurrency and its running tasks
    env,           \* the aliases and album titles callers pass, the pages the
                   \* provider may return, and whether a search may fail
    gor,           \* the goroutines calling GetArtistImages or GetAlbumImages,
                   \* one record each
    \* history variables of the client (not program state)
    expiryOf,      \* the issue whose expiry tokenExpiry holds
    tokenCalls,    \* number of requests sent to the token endpoint
    tokenHdr       \* Authorization headers of the token requests, as sent

importVars == <<ipc, n, item, window, lastImported, calls, opts, ret, ctxDone,
                accepted, dups, failure, order>>

clientVars == <<accessToken, tokenExpiry, creds, now, requestQueue, env, gor,
                expiryOf, tokenCalls, tokenHdr>>

vars == <<importVars, clientVars>>

-----------------------------------------------------------------------------
\* Bounds of the importer model.
MaxItems == 3      \* records in the export file
MaxTs == 6         \* timestamps are 0..MaxTs seconds

\* 5*time.Second of the duplicate check, in seconds.
DupWindow == 5

ReasonEnds == {"trackdone", "fwdbtn"}
ArtistNames == {"", "X"}
TrackNames == {"", "Y", "W"}
AlbumNames == {"Z"}
MsValues == {999, 2500}
SubmitErrs == {"errStore", "errCanceled"}

\* The decoded records of the export file (SpotifyExportItem).
SpotifyExportItem ==
    [Timestamp : 0..MaxTs, TrackName : TrackNames, ArtistName : ArtistNames,
     AlbumName : AlbumNames, ReasonEnd : ReasonEnds, MsPlayed : MsValues]

NoItem == [none |-> TRUE]
NoOpts == [none |-> TRUE]
NoRet == [none |-> TRUE]
NoFailure == [none |-> TRUE]
EmptyMap == <<>>

\* The time windows the configuration is drawn from: everything, or a window
\* that leaves out the first and the last second.
Windows == {[After |-> 0, Before |-> MaxTs + 1], [After |-> 1, Before |-> MaxTs]}

\* inImportTimeWindow is defined elsewhere in package importer; modelled from
\* the specification: bounds on the timestamp, lower inclusive, upper exclusive.
inImportTimeWindow(t) == window.After <= t /\ t < window.Before

\* key := item.ArtistName + "|" + item.TrackName + "|" + item.AlbumName
Key(it) == it.ArtistName \o "|" \o it.TrackName \o "|" \o it.AlbumName

\* item.Timestamp.Sub(prevTime): a signed duration.
Sub(t, u) == t - u

\* The three filters of lines 52-63, in the code's order.
PassesFiltersMut(it) ==
    /\ it.ReasonEnd = "trackdone"
    /\ inImportTimeWindow(it.Timestamp)
    /\ ~(it.TrackName = "")
PassesFilters(it) ==
    /\ it.ReasonEnd = "trackdone"
    /\ inImportTimeWindow(it.Timestamp)
    /\ ~(it.TrackName = "" \/ it.ArtistName = "")

\* prevTime, exists := lastImported[key]; exists && Sub(prevTime) < 5s
IsDuplicate(m, it) ==
    /\ Key(it) \in DOMAIN m
    /\ Sub(it.Timestamp, m[Key(it)]) < DupWindow

\* Go's integer division truncates toward zero.
TruncDivMut(a, b) == (a + (b \div 2)) \div b
TruncDiv(a, b) == IF a >= 0 THEN a \div b ELSE -((-a) \div b)

\* catalog.SubmitListenOpts built at lines 71-81 (the fields that vary).
SubmitListenOpts(it) ==
    [Artist |-> it.ArtistName, TrackTitle |-> it.TrackName,
     ReleaseTitle |-> it.AlbumName, Duration |-> TruncDiv(it.MsPlayed, 1000),
     Time |-> it.Timestamp, Client |-> "spotify"]

\* fmt.Errorf("ImportSpotifyFile: %w", err): a prefix and the wrapped error.
ErrorfMut(prefix, err) == [prefix |-> prefix]
Errorf(prefix, err) == [prefix |-> prefix, wraps |-> err]

\* lastImported[key] = item.Timestamp
PutMut(m, k, t) ==
    [x \in DOMAIN m \cup {k} |-> IF x \in DOMAIN m THEN m[x] ELSE t]
Put(m, k, t) ==
    [x \in DOMAIN m \cup {k} |-> IF x = k THEN t ELSE m[x]]

\* What the run does when SubmitListen returned err (lines 83-86): it returns.
OnSubmitErrorMut(err) == [ipc |-> "loop", ret |-> NoRet]
OnSubmitError(err) == [ipc |-> "done", ret |-> Errorf("ImportSpotifyFile", err)]

\* for _, item := range export: the position after position k.
NextIndexMut(k) == IF k = 0 THEN 2 ELSE IF k = 2 THEN 1 ELSE MaxItems
NextIndex(k) == k + 1

-----------------------------------------------------------------------------
ImportInit ==
    /\ ipc = "loop"
    /\ n = 0
    /\ item = NoItem
    /\ window \in Windows
    /\ lastImported = EmptyMap
    /\ calls = 0
    /\ opts = NoOpts
    /\ ret = NoRet
    /\ ctxDone = FALSE
    /\ accepted = EmptyMap
    /\ dups = 0
    /\ failure = NoFailure
    /\ order = <<>>

\* for _, item := range export: the next record of the file. The file was
\* decoded before the loop; its records are drawn here one by one.
RangeNext ==
    /\ ipc = "loop"
    /\ n < MaxItems
    /\ \E it \in SpotifyExportItem : item' = it
    /\ n' = NextIndex(n)
    /\ ipc' = "filter"
    /\ UNCHANGED <<window, lastImported, calls, opts, ret, ctxDone, accepted, dups,
                   failure, order>>
    /\ UNCHANGED clientVars

\* Lines 52-63: a record failing a filter is skipped (continue).
FilterSkip ==
    /\ ipc = "filter"
    /\ ~PassesFilters(item)
    /\ ipc' = "loop"
    /\ item' = NoItem
    /\ UNCHANGED <<n, window, lastImported, calls, opts, ret, ctxDone, accepted, dups,
                   failure, order>>
    /\ UNCHANGED clientVars

\* Lines 65-70: a record the duplicate check discards (continue).
DuplicateSkip ==
    /\ ipc = "filter"
    /\ PassesFilters(item)
    /\ IsDuplicate(lastImported, item)
    /\ ipc' = "loop"
    /\ item' = NoItem
    /\ dups' = dups + 1
    /\ UNCHANGED <<n, window, lastImported, calls, opts, ret, ctxDone, accepted,
                   failure, order>>
    /\ UNCHANGED clientVars

\* Lines 71-82: the call of catalog.SubmitListen.
SubmitCall ==
    /\ ipc = "filter"
    /\ PassesFilters(item)
    /\ ~IsDuplicate(lastImported, item)
    /\ opts' = SubmitListenOpts(item)
    /\ calls' = calls + 1
    /\ order' = Append(order, n)
    /\ ipc' = "submit"
    /\ UNCHANGED <<n, item, window, lastImported, ret, ctxDone, accepted, dups, failure>>
    /\ UNCHANGED clientVars

\* Lines 82, 87-89: SubmitListen returned nil; the map is updated, the
\* throttle function runs and the loop goes on.
SubmitOk ==
    /\ ipc = "submit"
    /\ accepted' = [k \in DOMAIN accepted \cup {Key(item)} |->
                       IF k = Key(item) THEN item.Timestamp ELSE accepted[k]]
    /\ lastImported' = Put(lastImported, Key(item), item.Timestamp)
    /\ ipc' = "loop"
    /\ item' = NoItem
    /\ UNCHANGED <<n, window, calls, opts, ret, ctxDone, dups, failure, order>>
    /\ UNCHANGED clientVars

\* Lines 82-86: SubmitListen returned an error.
SubmitFail ==
    /\ ipc = "submit"
    /\ \E err \in SubmitErrs :
          /\ failure' = [err |-> err, calls |-> calls, n |-> n]
          /\ ipc' = OnSubmitError(err).ipc
          /\ ret' = OnSubmitError(err).ret
    /\ UNCHANGED <<n, item, window, lastImported, calls, opts, ctxDone, accepted, dups,
                   order>>
    /\ UNCHANGED clientVars

\* Line 91: the loop is over; return finishImport(ctx, filename, len(export)).
\* finishImport is defined elsewhere; its result is kept as the call made.
FinishImport ==
    /\ ipc = "loop"
    /\ ret' = [finishImport |-> n]
    /\ ipc' = "done"
    /\ UNCHANGED <<n, item, window, lastImported, calls, opts, ctxDone, accepted, dups,
                   failure, order>>
    /\ UNCHANGED clientVars

\* The caller cancels ctx while the run is under way. The run reads ctx
\* nowhere: it only passes it on to SubmitListen and finishImport.
CtxCancel ==
    /\ ipc \in {"loop", "filter", "submit"}
    /\ ~ctxDone
    /\ ctxDone' = TRUE
    /\ UNCHANGED <<ipc, n, item, window, lastImported, calls, opts, ret, accepted, dups,
                   failure, order>>
    /\ UNCHANGED clientVars

ImportNext ==
    \/ RangeNext
    \/ FilterSkip
    \/ DuplicateSkip
    \/ SubmitCall
    \/ SubmitOk
    \/ SubmitFail
    \/ FinishImport
    \/ CtxCancel

-----------------------------------------------------------------------------
\* The Spotify artwork client (package images).
\*
\* Strings of the client are sequences of characters, so that equality
\* under case folding and substring search are computed, not assumed.
\* The alphabet: the Latin letters k, K, o and "#", a letter of another
\* script whose transliteration is k.
Chars == {"k", "K", "o", "#"}

LowerChar(ch) == IF ch = "K" THEN "k" ELSE ch

\* strings.ToLower
ToLower(s) == [i \in 1..Len(s) |-> LowerChar(s[i])]

\* strings.EqualFold: equal under simple case folding (on this alphabet the
\* folding of a letter is its lower case).
EqualFold(s, t) ==
    /\ Len(s) = Len(t)
    /\ \A i \in 1..Len(s) : LowerChar(s[i]) = LowerChar(t[i])

\* strings.Contains
Contains(s, sub) ==
    \E i \in 0..(Len(s) - Len(sub)) : SubSeq(s, i + 1, i + Len(sub)) = sub

\* romanizer.Romanize is defined in another package; modelled from the
\* specification: the Latin transliteration of a name of another script,
\* and "" for a name that has nothing to transliterate.
Romanize(s) ==
    IF \A i \in 1..Len(s) : s[i] # "#"
    THEN <<>>
    ELSE [i \in 1..Len(s) |-> IF s[i] = "#" THEN "k" ELSE s[i]]

\* utils.UniqueIgnoringCase is defined in another package; modelled from the
\* specification (aliases are case-insensitive): the first occurrence of
\* every name, compared ignoring case, in the order given.
UniqueIgnoringCase(names) ==
    SelectSeq([i \in 1..Len(names) |-> [s |-> names[i], i |-> i]],
              LAMBDA e : \A j \in 1..(e.i - 1) : ToLower(names[j]) # ToLower(e.s))

\* The aliases left by UniqueIgnoringCase.
Uniq(names) == [i \in 1..Len(UniqueIgnoringCase(names)) |-> UniqueIgnoringCase(names)[i].s]

\* The queries GetArtistImages issues while nothing matches, in order: each
\* is a place [strat, i] of the four loops (i = 0 for the combined query).
RomanizedLoop(al) ==
    SelectSeq([i \in 1..Len(al) |-> [strat |-> 1, i |-> i]],
              LAMBDA p : Romanize(al[p.i]) # <<>>)
QuotedLoop(al) == [i \in 1..Len(al) |-> [strat |-> 2, i |-> i]]
UnquotedLoop(al) == [i \in 1..Len(al) |-> [strat |-> 3, i |-> i]]
CombinedQueryMut(al) == <<[strat |-> 4, i |-> 0]>>
CombinedQuery(al) == IF Len(al) > 1 THEN <<[strat |-> 4, i |-> 0]>> ELSE <<>>

ArtistPlanMut(al) ==
    QuotedLoop(al) \o RomanizedLoop(al) \o UnquotedLoop(al) \o CombinedQuery(al)
ArtistPlan(al) ==
    RomanizedLoop(al) \o QuotedLoop(al) \o UnquotedLoop(al) \o CombinedQuery(al)

\* The query text of a place: whether the terms are quoted, and the terms
\* (fmt.Sprintf("artist:\"%s\"", ...), "artist:%s", and the OR of all).
ArtistQuery(al, p) ==
    CASE p.strat = 1 -> [quoted |-> TRUE, terms |-> <<Romanize(al[p.i])>>]
      [] p.strat = 2 -> [quoted |-> TRUE, terms |-> <<al[p.i]>>]
      [] p.strat = 3 -> [quoted |-> FALSE, terms |-> <<al[p.i]>>]
      [] p.strat = 4 -> [quoted |-> TRUE, terms |-> al]

\* The test of lines 560, 579 and 604.
NameMatches(name, a) ==
    EqualFold(name, a) \/ Contains(ToLower(name), ToLower(a))

\* The test a returned artist must pass at place p (lines 540, 560, 579, 604).
ArtistMatches(al, p, name) ==
    CASE p.strat = 1 -> \/ EqualFold(name, Romanize(al[p.i]))
                        \/ EqualFold(name, al[p.i])
                        \/ Contains(ToLower(name), ToLower(al[p.i]))
      [] p.strat \in {2, 3} -> NameMatches(name, al[p.i])
      [] p.strat = 4 -> \E i \in 1..Len(al) : NameMatches(name, al[i])

\* The artists of a result the scan returns from: matching, with an image.
Accepted(al, p, results) ==
    {j \in 1..Len(results) :
        ArtistMatches(al, p, results[j].Name) /\ Len(results[j].Images) > 0}

Min(S) == CHOOSE x \in S : \A y \in S : x <= y
Max(S) == CHOOSE x \in S : \A y \in S : x >= y

\* img := artist.Images[0].URL of the first accepted artist, in result order.
FirstImageMut(al, p, results) == results[Max(Accepted(al, p, results))].Images[1]
FirstImage(al, p, results) == results[Min(Accepted(al, p, results))].Images[1]

\* The queries of GetAlbumImages. A query is kept as its parts: the group it
\* belongs to (1 per artist, 2 combined artists, 3 album title only), the
\* index of the artist (0 outside group 1), the artist terms and whether they
\* are quoted, and the album term and whether it is quoted.
AlbumQuery(grp, i, artists, aq, title, tq) ==
    [grp |-> grp, i |-> i, artist |-> artists, aq |-> aq, title |-> title, tq |-> tq]

\* if cond { queries = append(queries, ...) }
AppendIf(cond, qs) == IF cond THEN qs ELSE <<>>

\* queries of lines 630-654 for the i-th artist.
ArtistAlbumQueries(artist, album, i) ==
    LET romanizedArtist == Romanize(artist)
        romanizedAlbum == Romanize(album)
        Q(a, aq, t) == AlbumQuery(1, i, <<a>>, aq, t, TRUE)
    IN  AppendIf(romanizedAlbum # <<>>, <<Q(artist, TRUE, romanizedAlbum)>>)
        \o AppendIf(romanizedArtist # <<>>,
                <<Q(romanizedArtist, TRUE, album)>>
                \o AppendIf(romanizedAlbum # <<>>,
                        <<Q(romanizedArtist, TRUE, romanizedAlbum)>>))
        \o <<Q(artist, TRUE, album)>>
        \o <<Q(artist, FALSE, album)>>
        \o AppendIf(romanizedAlbum # <<>>, <<Q(artist, FALSE, romanizedAlbum)>>)
        \o AppendIf(romanizedArtist # <<>>,
                <<Q(romanizedArtist, FALSE, album)>>
                \o AppendIf(romanizedAlbum # <<>>,
                        <<Q(romanizedArtist, FALSE, romanizedAlbum)>>))

\* for _, artist := range artistsUniq (lines 626-673), from the i-th artist on.
RECURSIVE ArtistAlbumLoopFrom(_, _, _)
ArtistAlbumLoopFrom(al, album, i) ==
    IF i > Len(al) THEN <<>>
    ELSE ArtistAlbumQueries(al[i], album, i) \o ArtistAlbumLoopFrom(al, album, i + 1)

ArtistAlbumLoop(al, album) == ArtistAlbumLoopFrom(al, album, 1)

\* Lines 676-688: the artists joined with OR, with the album and then with
\* its romanization.
CombinedArtistsQueries(al, album) ==
    IF Len(al) > 1
    THEN <<AlbumQuery(2, 0, al, TRUE, album, TRUE)>>
         \o AppendIf(Romanize(album) # <<>>,
                 <<AlbumQuery(2, 0, al, TRUE, Romanize(album), TRUE)>>)
    ELSE <<>>

\* Lines 710-717: the album title alone.
TitleOnlyQueries(album) ==
    AppendIf(Romanize(album) # <<>>,
        <<AlbumQuery(3, 0, <<>>, FALSE, Romanize(album), TRUE),
          AlbumQuery(3, 0, <<>>, FALSE, Romanize(album), FALSE)>>)
    \o <<AlbumQuery(3, 0, <<>>, FALSE, album, TRUE),
         AlbumQuery(3, 0, <<>>, FALSE, album, FALSE)>>

\* The queries GetAlbumImages issues while nothing matches, in order.
AlbumPlanMut(al, album) ==
    TitleOnlyQueries(album) \o ArtistAlbumLoop(al, album)
        \o CombinedArtistsQueries(al, album)
AlbumPlan(al, album) ==
    ArtistAlbumLoop(al, album) \o CombinedArtistsQueries(al, album)
        \o TitleOnlyQueries(album)

\* The test of lines 663, 697 and 726: always against the album as given.
AlbumMatches(album, name) == NameMatches(name, album)

\* The albums of a result the scan returns from: matching, with an image.
AlbumAccepted(album, results) ==
    {j \in 1..Len(results) :
        AlbumMatches(album, results[j].Name) /\ Len(results[j].Images) > 0}

\* img := alb.Images[0].URL of the first accepted album, in result order.
FirstAlbumImage(album, results) == results[Min(AlbumAccepted(album, results))].Images[1]

-----------------------------------------------------------------------------
\* State and steps of the client.

\* queue.NewRequestQueue(5, 5)
QueueConcurrency == 5
\* 5*time.Minute of ensureToken, in minutes.
Margin == 5
\* The zero time.Time of a tokenExpiry never written: long before any clock.
ZeroTime == -1000

\* Bounds of the client model.
MaxNow == 2          \* the clock runs over 0..MaxNow minutes
MaxTokenCalls == 2   \* requests to the token endpoint
MaxAliases == 2      \* aliases given to GetArtistImages
MaxResults == 2      \* artists in one search result

\* expires_in of a token response, in minutes.
ExpiresInValues == {5, 6}

\* The goroutines that can call the client: one more than the queue admits.
Goroutines == 1..(QueueConcurrency + 1)

AliasNames == {<<"#">>, <<"k">>, <<"K">>, <<"o">>}
ArtistNamesFound == {<<"K">>, <<"k", "o">>, <<"o">>}

\* The URL of an artist's first image: one URL per artist name.
ImageURL(name) == <<"img">> \o name

\* spotify.FullArtist, the fields the scan reads: an artist has no image,
\* or images of which the first has the artist's URL.
FullArtist ==
    UNION {{[Name |-> nm, Images |-> <<>>],
            [Name |-> nm, Images |-> <<ImageURL(nm)>>]} :
                nm \in ArtistNamesFound}

SeqsUpTo(S, len) == UNION {[1..m -> S] : m \in 0..len}

Nil == [nil |-> TRUE]
NoSaw == [none |-> TRUE]

\* The value GetArtistImages returns.
Found(img) == [img |-> img, err |-> Nil]
NotFound == [img |-> <<>>, err |-> [new |-> "GetArtistImages: artist image not found"]]
NotFoundAlbum == [img |-> <<>>, err |-> [new |-> "GetAlbumImages: album image not found"]]
Failed(cause) ==
    [img |-> <<>>, err |-> Errorf("GetArtistImages", Errorf("searchEntity", cause))]
FailedAlbum(cause) ==
    [img |-> <<>>, err |-> Errorf("GetAlbumImages", Errorf("searchEntity", cause))]
Running == [none |-> TRUE]

\* A goroutine: kind is the function it called ("artist" for GetArtistImages,
\* "album" for GetAlbumImages), args the names it was given, al the names
\* left by UniqueIgnoringCase, album the album title.
OffGor == [pc |-> "off", kind |-> "none", args |-> <<>>, al |-> <<>>, album |-> <<>>,
           k |-> 0,
           obsTok |-> 0, req |-> 0, pend |-> 0,
           res |-> <<>>, saw |-> NoSaw, log |-> <<>>, out |-> Running]
IdleGor == [OffGor EXCEPT !.pc = "idle"]

\* time.Now().After(c.tokenExpiry.Add(-5*time.Minute))
ExpiresSoonMut(t, expiry) == t > expiry
ExpiresSoon(t, expiry) == t > expiry - Margin

\* The queries of the call, in order.
Plan(r) == IF r.kind = "album" THEN AlbumPlan(r.al, r.album) ELSE ArtistPlan(r.al)

\* The place the cascade is at.
Place(r) == Plan(r)[r.k]

\* The query sent at the place.
QueryOf(r) == IF r.kind = "album" THEN Place(r) ELSE ArtistQuery(r.al, Place(r))

\* The cascade goes on to its next query, or ends with "not found" (lines
\* 616 and 737).
NextQuery(r) ==
    IF r.k < Len(Plan(r))
    THEN [r EXCEPT !.k = r.k + 1, !.pc = "ensure", !.res = <<>>]
    ELSE [r EXCEPT !.pc = "done", !.res = <<>>,
                   !.out = IF r.kind = "album" THEN NotFoundAlbum ELSE NotFound]

\* return "", fmt.Errorf("GetArtistImages: %w", err), err from searchEntity
\* (and the same in GetAlbumImages): the call is over.
FailCallMut(r, cause) == [NextQuery(r) EXCEPT !.saw = NoSaw]
FailCall(r, cause) ==
    [r EXCEPT !.pc = "done", !.res = <<>>, !.saw = NoSaw,
              !.out = IF r.kind = "album" THEN FailedAlbum(cause) ELSE Failed(cause)]

\* searchEntity, lines 512-515: ensureToken returned an error; the search is
\* not made and the error goes up to the caller of the cascade.
OnTokenErrorMut(r, cause) == [r EXCEPT !.pc = "send", !.saw = NoSaw]
OnTokenError(r, cause) == FailCall(r, cause)

\* GetArtistImages is called (lines 526-528).
Start(c) ==
    /\ gor[c].pc = "idle"
    /\ \E aliases \in env.inputs :
          gor' = [gor EXCEPT ![c] =
                     NextQuery([@ EXCEPT !.kind = "artist", !.args = aliases,
                                         !.al = Uniq(aliases)])]
    /\ UNCHANGED <<accessToken, tokenExpiry, creds, now, requestQueue, env,
                   expiryOf, tokenCalls, tokenHdr>>
    /\ UNCHANGED importVars

\* GetAlbumImages is called (lines 619-623).
AlbumStart(c) ==
    /\ gor[c].pc = "idle"
    /\ \E artists \in env.inputs, album \in env.albums :
          gor' = [gor EXCEPT ![c] =
                     NextQuery([@ EXCEPT !.kind = "album", !.args = artists,
                                         !.al = Uniq(artists),
                                         !.album = album])]
    /\ UNCHANGED <<accessToken, tokenExpiry, creds, now, requestQueue, env,
                   expiryOf, tokenCalls, tokenHdr>>
    /\ UNCHANGED importVars

\* ensureToken, line 495, left operand: c.accessToken == "".
EnsureTokenRead(c) ==
    /\ gor[c].pc = "ensure"
    /\ gor' = [gor EXCEPT ![c] =
                  IF accessToken = 0
                  THEN [@ EXCEPT !.pc = "auth"]
                  ELSE [@ EXCEPT !.pc = "ensure2", !.obsTok = accessToken]]
    /\ UNCHANGED <<accessToken, tokenExpiry, creds, now, requestQueue, env,
                   expiryOf, tokenCalls, tokenHdr>>
    /\ UNCHANGED importVars

\* ensureToken, line 495, right operand: the expiry is read and compared.
EnsureTokenExpiry(c) ==
    /\ gor[c].pc = "ensure2"
    /\ gor' = [gor EXCEPT ![c] =
                  [@ EXCEPT !.pc = IF ExpiresSoon(now, tokenExpiry) THEN "auth" ELSE "send",
                            !.saw = [tok |-> gor[c].obsTok, exp |-> expiryOf],
                            !.obsTok = 0]]
    /\ UNCHANGED <<accessToken, tokenExpiry, creds, now, requestQueue, env,
                   expiryOf, tokenCalls, tokenHdr>>
    /\ UNCHANGED importVars

\* authenticate, lines 439-444: no credentials, no request.
AuthenticateNoCreds(c) ==
    /\ gor[c].pc = "auth"
    /\ ~creds
    /\ gor' = [gor EXCEPT ![c] = OnTokenError(@, "errNotConfigured")]
    /\ UNCHANGED <<accessToken, tokenExpiry, creds, now, requestQueue, env,
                   expiryOf, tokenCalls, tokenHdr>>
    /\ UNCHANGED importVars

\* authenticate, lines 449-464: the request leaves through c.httpClient,
\* whose transport (RoundTrip, lines 393-398) sets the Authorization header
\* to the bearer token whenever a token is cached.
AuthenticateSend(c) ==
    /\ gor[c].pc = "auth"
    /\ creds
    /\ tokenCalls < MaxTokenCalls
    /\ tokenCalls' = tokenCalls + 1
    /\ tokenHdr' = Append(tokenHdr, IF accessToken # 0 THEN "Bearer" ELSE "Basic")
    /\ gor' = [gor EXCEPT ![c] = [@ EXCEPT !.pc = "authReq", !.saw = NoSaw,
                                              !.req = tokenCalls + 1]]
    /\ UNCHANGED <<accessToken, tokenExpiry, creds, now, requestQueue, env, expiryOf>>
    /\ UNCHANGED importVars

\* authenticate, lines 465-485: a transport error, a status other than 200
\* or a body that does not parse.
AuthenticateFailMut(c) ==
    /\ gor[c].pc = "authReq"
    /\ gor' = [gor EXCEPT ![c] = OnTokenError([@ EXCEPT !.req = 0], "errAuth")]
    /\ accessToken' = 0
    /\ UNCHANGED <<tokenExpiry, creds, now, requestQueue, env,
                   expiryOf, tokenCalls, tokenHdr>>
    /\ UNCHANGED importVars
AuthenticateFail(c) ==
    /\ gor[c].pc = "authReq"
    /\ gor' = [gor EXCEPT ![c] = OnTokenError([@ EXCEPT !.req = 0], "errAuth")]
    /\ UNCHANGED <<accessToken, tokenExpiry, creds, now, requestQueue, env,
                   expiryOf, tokenCalls, tokenHdr>>
    /\ UNCHANGED importVars

\* authenticate, line 488: c.accessToken = tokenResp.AccessToken. The token
\* of the constructor's authenticate is issue 1, request r's is issue r + 1.
StoreToken(c) ==
    /\ gor[c].pc = "authReq"
    /\ \E e \in ExpiresInValues :
          gor' = [gor EXCEPT ![c] = [@ EXCEPT !.pc = "authStore", !.pend = e]]
    /\ accessToken' = gor[c].req + 1
    /\ UNCHANGED <<tokenExpiry, creds, now, requestQueue, env,
                   expiryOf, tokenCalls, tokenHdr>>
    /\ UNCHANGED importVars

\* authenticate, line 489: c.tokenExpiry = time.Now().Add(ExpiresIn seconds).
StoreExpiry(c) ==
    /\ gor[c].pc = "authStore"
    /\ tokenExpiry' = now + gor[c].pend
    /\ expiryOf' = gor[c].req + 1
    /\ gor' = [gor EXCEPT ![c] = [@ EXCEPT !.pc = "send", !.pend = 0, !.req = 0]]
    /\ UNCHANGED <<accessToken, creds, now, requestQueue, env, tokenCalls, tokenHdr>>
    /\ UNCHANGED importVars

\* searchEntity, line 517: c.client.Search is called directly; the request
\* is on its way to the provider.
SearchSend(c) ==
    /\ gor[c].pc = "send"
    /\ gor' = [gor EXCEPT ![c] =
                  [@ EXCEPT !.pc = "search", !.saw = NoSaw,
                            !.log = Append(@, [place |-> Place(gor[c]),
                                               query |-> QueryOf(gor[c])])]]
    /\ UNCHANGED <<accessToken, tokenExpiry, creds, now, requestQueue, env,
                   expiryOf, tokenCalls, tokenHdr>>
    /\ UNCHANGED importVars

\* searchEntity, lines 518-521: the search failed; GetArtistImages returns.
SearchFail(c) ==
    /\ gor[c].pc = "search"
    /\ env.fails
    /\ gor' = [gor EXCEPT ![c] = FailCall(@, "errSearch")]
    /\ UNCHANGED <<accessToken, tokenExpiry, creds, now, requestQueue, env,
                   expiryOf, tokenCalls, tokenHdr>>
    /\ UNCHANGED importVars

\* searchEntity, line 523: the search returned a page of artists (of albums
\* to GetAlbumImages).
SearchResults(c) ==
    /\ gor[c].pc = "search"
    /\ \E r \in env.pages :
          gor' = [gor EXCEPT ![c] = [@ EXCEPT !.pc = "scan", !.res = r]]
    /\ UNCHANGED <<accessToken, tokenExpiry, creds, now, requestQueue, env,
                   expiryOf, tokenCalls, tokenHdr>>
    /\ UNCHANGED importVars

\* The scan of the results (lines 538-548, 558-568, 577-587, 601-613): the
\* image of the first accepted artist is returned, else the cascade goes on.
Scan(c) ==
    /\ gor[c].pc = "scan"
    /\ gor[c].kind = "artist"
    /\ gor' = [gor EXCEPT ![c] =
                  IF Accepted(gor[c].al, Place(gor[c]), gor[c].res) # {}
                  THEN [@ EXCEPT !.pc = "done", !.res = <<>>,
                                 !.out = Found(FirstImage(gor[c].al, Place(gor[c]), gor[c].res))]
                  ELSE NextQuery(@)]
    /\ UNCHANGED <<accessToken, tokenExpiry, creds, now, requestQueue, env,
                   expiryOf, tokenCalls, tokenHdr>>
    /\ UNCHANGED importVars

\* The scan of the results in GetAlbumImages (lines 661-671, 695-705,
\* 724-734): the image of the first accepted album is returned, else the
\* cascade goes on.
AlbumScan(c) ==
    /\ gor[c].pc = "scan"
    /\ gor[c].kind = "album"
    /\ gor' = [gor EXCEPT ![c] =
                  IF AlbumAccepted(gor[c].album, gor[c].res) # {}
                  THEN [@ EXCEPT !.pc = "done", !.res = <<>>,
                                 !.out = Found(FirstAlbumImage(gor[c].album, gor[c].res))]
                  ELSE NextQuery(@)]
    /\ UNCHANGED <<accessToken, tokenExpiry, creds, now, requestQueue, env,
                   expiryOf, tokenCalls, tokenHdr>>
    /\ UNCHANGED importVars

\* Time passes.
Tick ==
    /\ now < MaxNow
    /\ now' = now + 1
    /\ UNCHANGED <<accessToken, tokenExpiry, creds, requestQueue, env, gor,
                   expiryOf, tokenCalls, tokenHdr>>
    /\ UNCHANGED importVars

-----------------------------------------------------------------------------
\* Specifications.

\* No import is running.
ImportOff ==
    /\ ipc = "off" /\ n = 0 /\ item = NoItem
    /\ window = [After |-> 0, Before |-> MaxTs + 1]
    /\ lastImported = EmptyMap /\ calls = 0 /\ opts = NoOpts /\ ret = NoRet
    /\ ctxDone = FALSE
    /\ accepted = EmptyMap /\ dups = 0 /\ failure = NoFailure /\ order = <<>>

\* NewSpotifyClient (lines 414-436): the queue is created, and authenticate
\* has run once, with or without success.
NewSpotifyClient ==
    /\ requestQueue = [concurrency |-> QueueConcurrency, running |-> {}]
    /\ now = 0
    /\ tokenCalls = 0
    /\ tokenHdr = <<>>
    /\ \/ /\ accessToken = 0 /\ tokenExpiry = ZeroTime /\ expiryOf = 0
          /\ creds \in BOOLEAN
       \/ /\ accessToken = 1 /\ expiryOf = 1 /\ creds = TRUE
          /\ tokenExpiry \in ExpiresInValues

\* No client call is made.
ClientOff ==
    /\ requestQueue = [concurrency |-> QueueConcurrency, running |-> {}]
    /\ now = 0 /\ tokenCalls = 0 /\ tokenHdr = <<>>
    /\ accessToken = 0 /\ tokenExpiry = ZeroTime /\ expiryOf = 0 /\ creds = FALSE
    /\ env = [inputs |-> {}, albums |-> {}, pages |-> {}, fails |-> FALSE]
    /\ gor = [c \in Goroutines |-> OffGor]

\* One run of ImportSpotifyFile.
ImportRunInit == ImportInit /\ ClientOff

SpecImport == ImportRunInit /\ [][ImportNext]_vars

\* One goroutine runs the artist cascade over every list of aliases and
\* every answer of the provider; the cached token stays valid.
CascadeInit ==
    /\ ImportOff
    /\ requestQueue = [concurrency |-> QueueConcurrency, running |-> {}]
    /\ now = 0 /\ tokenCalls = 0 /\ tokenHdr = <<>>
    /\ accessToken = 1 /\ tokenExpiry = 6 /\ expiryOf = 1 /\ creds = TRUE
    /\ env = [inputs |-> SeqsUpTo(AliasNames, MaxAliases), albums |-> {},
              pages |-> SeqsUpTo(FullArtist, MaxResults), fails |-> TRUE]
    /\ gor = [c \in Goroutines |-> IF c = 1 THEN IdleGor ELSE OffGor]

CascadeNext ==
    \E c \in Goroutines :
        \/ Start(c)
        \/ EnsureTokenRead(c)
        \/ EnsureTokenExpiry(c)
        \/ SearchSend(c)
        \/ SearchFail(c)
        \/ SearchResults(c)
        \/ Scan(c)

SpecCascade == CascadeInit /\ [][CascadeNext]_vars

\* The albums the provider returns (spotify.SimpleAlbum, the fields the scan
\* reads), the artists and the album titles GetAlbumImages is called with.
AlbumNamesFound == {<<"k">>, <<"#", "o">>, <<"o">>}
FullAlbum ==
    UNION {{[Name |-> nm, Images |-> <<>>],
            [Name |-> nm, Images |-> <<ImageURL(nm)>>]} :
                nm \in AlbumNamesFound}
AlbumArtists == {<<"#">>, <<"o">>}
AlbumTitles == {<<"#">>, <<"k">>}

\* One goroutine runs the album cascade, or the artist cascade, over every
\* answer of the provider; the cached token stays valid.
AlbumInit ==
    /\ ImportOff
    /\ requestQueue = [concurrency |-> QueueConcurrency, running |-> {}]
    /\ now = 0 /\ tokenCalls = 0 /\ tokenHdr = <<>>
    /\ accessToken = 1 /\ tokenExpiry = 6 /\ expiryOf = 1 /\ creds = TRUE
    /\ env = [inputs |-> SeqsUpTo(AlbumArtists, MaxAliases), albums |-> AlbumTitles,
              pages |-> SeqsUpTo(FullAlbum, MaxResults), fails |-> TRUE]
    /\ gor = [c \in Goroutines |-> IF c = 1 THEN IdleGor ELSE OffGor]

AlbumNext ==
    \E c \in Goroutines :
        \/ Start(c)
        \/ AlbumStart(c)
        \/ EnsureTokenRead(c)
        \/ EnsureTokenExpiry(c)
        \/ SearchSend(c)
        \/ SearchFail(c)
        \/ SearchResults(c)
        \/ Scan(c)
        \/ AlbumScan(c)

SpecAlbum == AlbumInit /\ [][AlbumNext]_vars

\* Two goroutines call the client while the clock runs and the token is
\* absent, valid or about to expire.
TokenInit ==
    /\ ImportOff
    /\ NewSpotifyClient
    /\ env = [inputs |-> {<< <<"o">> >>}, albums |-> {},
              pages |-> {<<>>, <<[Name |-> <<"o">>, Images |-> <<ImageURL(<<"o">>)>>]>>},
              fails |-> TRUE]
    /\ gor = [c \in Goroutines |-> IF c <= 2 THEN IdleGor ELSE OffGor]

TokenNext ==
    \/ \E c \in Goroutines :
        \/ Start(c)
        \/ EnsureTokenRead(c)
        \/ EnsureTokenExpiry(c)
        \/ AuthenticateNoCreds(c)
        \/ AuthenticateSend(c)
        \/ AuthenticateFail(c)
        \/ StoreToken(c)
        \/ StoreExpiry(c)
        \/ SearchSend(c)
        \/ SearchFail(c)
        \/ SearchResults(c)
        \/ Scan(c)
    \/ Tick

SpecToken == TokenInit /\ [][TokenNext]_vars

\* One more goroutine than the queue's concurrency calls the client while
\* the cached token is valid.
QueueInit ==
    /\ ImportOff
    /\ requestQueue = [concurrency |-> QueueConcurrency, running |-> {}]
    /\ now = 0 /\ tokenCalls = 0 /\ tokenHdr = <<>>
    /\ accessToken = 1 /\ tokenExpiry = 6 /\ expiryOf = 1 /\ creds = TRUE
    /\ env = [inputs |-> {<< <<"o">> >>}, albums |-> {},
              pages |-> {<<[Name |-> <<"o">>, Images |-> <<ImageURL(<<"o">>)>>]>>},
              fails |-> TRUE]
    /\ gor = [c \in Goroutines |-> IdleGor]

SpecQueue == QueueInit /\ [][CascadeNext]_vars

-----------------------------------------------------------------------------
\* Properties of ImportSpotifyFile, checked under SpecImport.

Abs(x) == IF x < 0 THEN -x ELSE x

\* The record is less than 5 seconds away, before or after, from the
\* timestamp remembered for its key.
NearRemembered(m, it) ==
    /\ Key(it) \in DOMAIN m
    /\ Abs(it.Timestamp - m[Key(it)]) < DupWindow

\* C1: a record that passed the reason, time-window and empty-name filters is
\* discarded exactly when its key is remembered and its timestamp is less
\* than 5 seconds away, before or after, from the remembered one; in every
\* other case it is submitted to SubmitListen.
C1_DiscardedIffWithin5s ==
    [][(ipc = "filter" /\ PassesFilters(item)) =>
          /\ NearRemembered(lastImported, item) => (ipc' = "loop" /\ calls' = calls)
          /\ ~NearRemembered(lastImported, item) =>
                (ipc' = "submit" /\ calls' = calls + 1)]_vars

\* C2: the map starts empty and always maps each key to the timestamp of the
\* last record of that key that SubmitListen accepted in this run; a record
\* discarded by a filter or as a duplicate leaves it unchanged.
C2_MapIsLastAccepted ==
    /\ n = 0 => lastImported = EmptyMap
    /\ lastImported = accepted

\* The chain T, T+3s, T+6s of one key: two submissions, one duplicate.
C2_Witness ==
    /\ ipc = "loop" /\ n = 3 /\ calls = 2 /\ dups = 1
    /\ \E k \in DOMAIN lastImported :
          DOMAIN lastImported = {k} /\ lastImported[k] = 6

\* C3: SubmitListen is called only for a record whose completion reason is
\* "trackdone", whose timestamp is inside the import time window and whose
\* track and artist names are both non-empty.
C3_OnlyValidRecordsSubmitted ==
    [][(calls' # calls \/ opts' # opts) =>
          /\ item.ReasonEnd = "trackdone"
          /\ inImportTimeWindow(item.Timestamp)
          /\ item.TrackName # ""
          /\ item.ArtistName # ""
          /\ opts' = SubmitListenOpts(item)]_vars

\* Two records taken: one submitted and accepted, one skipped by a filter.
C3_Witness == ipc = "loop" /\ n = 2 /\ calls = 1 /\ dups = 0 /\ lastImported # EmptyMap

\* C4: once SubmitListen has returned an error the run is over: no further
\* record is taken or submitted, and the value returned wraps that error.
C4_FailFast ==
    failure # NoFailure =>
        /\ ipc = "done"
        /\ calls = failure.calls
        /\ n = failure.n
        /\ "wraps" \in DOMAIN ret
        /\ ret.wraps = failure.err

\* The second submission failed while the file could hold more records.
C4_Witness == failure # NoFailure /\ calls = 2 /\ n < MaxItems

-----------------------------------------------------------------------------
\* Properties of the client.

\* The queries of one call were issued in the order of the strategies:
\* romanized quoted (1), original quoted (2), original unquoted (3), the
\* combined OR query (4), and alias by alias within a strategy.
InStrategyOrder(log) ==
    \A i, j \in 1..Len(log) :
        i < j => \/ log[i].place.strat < log[j].place.strat
                 \/ /\ log[i].place.strat = log[j].place.strat
                    /\ log[i].place.i < log[j].place.i

\* The artwork of the first artist of the page, in result order, that
\* passes the test of the place and has an image.
IsFirstAcceptedImage(r, img) ==
    \E j \in Accepted(r.al, Place(r), r.res) :
        /\ \A i \in Accepted(r.al, Place(r), r.res) : j <= i
        /\ img = r.res[j].Images[1]

\* C6: the artist cascade issues its queries in strict strategy order and
\* stops at the first match: when a page holds an accepted artist its artwork
\* is returned, and a call that has returned issues no further query.
C6_StrictOrderFirstMatchWins ==
    [][\A c \in Goroutines :
          /\ InStrategyOrder(gor'[c].log)
          /\ (gor[c].pc = "scan" /\ gor'[c] # gor[c]
                /\ Accepted(gor[c].al, Place(gor[c]), gor[c].res) # {}) =>
                /\ gor'[c].pc = "done"
                /\ gor'[c].out.err = Nil
                /\ IsFirstAcceptedImage(gor[c], gor'[c].out.img)
                /\ gor'[c].log = gor[c].log
          /\ gor[c].pc = "done" => gor'[c] = gor[c]]_vars

\* Two aliases, the first in another script: the romanized query of the
\* first alias matched, and the call returned after that single query.
C6_Witness ==
    /\ gor[1].pc = "done" /\ gor[1].out.err = Nil
    /\ Len(gor[1].al) = 2 /\ gor[1].al[1] = <<"#">>
    /\ Len(gor[1].log) = 1 /\ gor[1].log[1].place.strat = 1

\* The goroutines inside authenticate with a token request on its way or
\* its answer being stored.
Refreshing == {c \in Goroutines : gor[c].pc \in {"authReq", "authStore"}}

\* C7: callers that find the token absent or expired wait behind a single
\* refresh: there are never two refreshes of the same client in flight.
C7_SingleFlightRefresh == Cardinality(Refreshing) <= 1

\* C8: before every query the cached token is checked; when it is absent, or
\* the clock is later than its expiry minus 5 minutes, authenticate runs
\* before the query is sent; when it is present and further than 5 minutes
\* from expiry the query is sent with no request to the token endpoint.
C8_TokenCheckedBeforeQuery ==
    [][/\ \A c \in Goroutines :
             /\ (gor[c].pc = "ensure" /\ gor'[c].pc # "ensure") =>
                   gor'[c].pc = IF accessToken = 0 THEN "auth" ELSE "ensure2"
             /\ (gor[c].pc = "ensure2" /\ gor'[c].pc # "ensure2") =>
                   gor'[c].pc = IF now > tokenExpiry - 5 THEN "auth" ELSE "send"
             /\ (gor'[c].pc = "send" /\ gor[c].pc # "send") =>
                   gor[c].pc \in {"ensure2", "authStore"}
             /\ (gor'[c].pc = "search" /\ gor[c].pc # "search") => gor[c].pc = "send"
       /\ tokenCalls' # tokenCalls =>
             \E c \in Goroutines : gor[c].pc = "auth" /\ gor'[c].pc = "authReq"]_vars

\* A cached token came within 5 minutes of its expiry, one refresh was made
\* and stored, and the query was then sent.
C8_Witness ==
    /\ tokenHdr = <<"Bearer">> /\ accessToken = 2 /\ expiryOf = 2
    /\ \E c \in Goroutines : gor[c].pc = "search"

\* The searches on their way to the provider.
Searching == {c \in Goroutines : gor[c].pc = "search"}

\* C9: every search runs as a task of the request queue, so at most 5
\* searches are in flight at the same time.
C9_AtMostFiveSearchesInFlight == Cardinality(Searching) <= requestQueue.concurrency

\* C10: the token and its expiry are read as a pair: no check observes the
\* token of one issue together with the expiry of another.
C10_TokenPairReadWhole ==
    \A c \in Goroutines :
        "tok" \in DOMAIN gor[c].saw => gor[c].saw.tok = gor[c].saw.exp

\* An artist of the page has an image and a name that equals or contains,
\* ignoring case, the alias of the place or the romanization of that alias.
MatchesAliasOrRomanization(r) ==
    \E j \in 1..Len(r.res) :
        /\ Len(r.res[j].Images) > 0
        /\ \/ NameMatches(r.res[j].Name, r.al[Place(r).i])
           \/ NameMatches(r.res[j].Name, Romanize(r.al[Place(r).i]))

\* C11: in the romanized exact-phrase strategy an artist is accepted when its
\* name equals or contains, ignoring case, the alias, and also when it equals
\* or contains the romanization of the alias: a page of the romanized query
\* holding such an artist (with an image) ends the call with artwork.
C11_RomanizedAcceptsContainment ==
    [][\A c \in Goroutines :
          (/\ gor[c].pc = "scan" /\ gor'[c] # gor[c]
           /\ gor[c].kind = "artist"
           /\ Place(gor[c]).strat = 1
           /\ MatchesAliasOrRomanization(gor[c])) =>
              (gor'[c].pc = "done" /\ gor'[c].out.err = Nil)]_vars

\* C12: when every query of the artist cascade succeeded and none matched,
\* the call reports "not found" as an outcome that is not an error.
C12_NotFoundIsNotAnError ==
    [][\A c \in Goroutines :
          (/\ gor[c].kind = "artist"
           /\ gor[c].pc = "scan" /\ gor'[c].pc = "done"
           /\ Accepted(gor[c].al, Place(gor[c]), gor[c].res) = {}) =>
              gor'[c].out.err = Nil]_vars

\* C16: every request sent to the token endpoint leaves the client with the
\* basic-auth header of the client id and secret, on the first
\* authentication and on a refresh made while an old token is cached.
C16_TokenRequestsCarryBasicAuth ==
    \A i \in 1..Len(tokenHdr) : tokenHdr[i] = "Basic"

-----------------------------------------------------------------------------
\* Further properties of ImportSpotifyFile, checked under SpecImport.

\* C13: once ctx is cancelled the run honours the cancellation: it submits
\* no further record to SubmitListen.
C13_CancellationStopsImport == [][ctxDone => calls' = calls]_vars

StrictlyIncreasing(sq) == \A i, j \in 1..Len(sq) : i < j => sq[i] < sq[j]

\* C17: the records are submitted one at a time in file order: a call of
\* SubmitListen is made only when no call is in flight, for the record the
\* loop is at, and the positions of the submitted records increase.
C17_SubmittedOneAtATimeInFileOrder ==
    [][/\ StrictlyIncreasing(order')
       /\ Len(order') = calls'
       /\ calls' # calls =>
             /\ ipc # "submit" /\ ipc' = "submit"
             /\ calls' = calls + 1
             /\ order' = Append(order, n)
       /\ ipc = "submit" => (n' = n /\ calls' = calls)]_vars

\* Three records submitted, the first two accepted, the third in flight.
C17_Witness == ipc = "submit" /\ order = <<1, 2, 3>> /\ calls = 3

\* The largest int32 (MsPlayed and Duration are int32).
Int32Max == 2147483647

\* d is the quotient of ms by 1000 truncated toward zero.
IsTruncatedSeconds(ms, d) ==
    \E r \in -999..999 :
        /\ ms = d * 1000 + r
        /\ r = 0 \/ ((r > 0) <=> (ms > 0))

\* C18: every SubmitListen call carries Duration = ms_played / 1000 truncated
\* (0 for a play shorter than 1000 ms), a value of 32 bits, and the record's
\* timestamp unchanged.
C18_DurationTruncatedSeconds ==
    [][calls' # calls =>
          /\ IsTruncatedSeconds(item.MsPlayed, opts'.Duration)
          /\ (item.MsPlayed >= 0 /\ item.MsPlayed < 1000) => opts'.Duration = 0
          /\ opts'.Duration >= -Int32Max - 1 /\ opts'.Duration <= Int32Max
          /\ opts'.Time = item.Timestamp]_vars

\* The second call of a run carries a play of 999 ms with duration 0.
C18_Witness ==
    /\ ipc = "submit" /\ calls = 2
    /\ item.MsPlayed = 999 /\ opts.Duration = 0 /\ opts.Time = item.Timestamp

-----------------------------------------------------------------------------
\* Properties of the album cascade, checked under SpecAlbum.

\* The album-title-only queries of a call, in the order they were issued.
TitleOnlyIssued(log) == SelectSeq(log, LAMBDA e : e.place.grp = 3)

\* The order the title-only queries are to be issued in: romanized quoted,
\* romanized unquoted, original quoted, original unquoted.
TitleOnlyOrder(album) ==
    IF Romanize(album) # <<>>
    THEN <<[title |-> Romanize(album), tq |-> TRUE],
           [title |-> Romanize(album), tq |-> FALSE],
           [title |-> album, tq |-> TRUE],
           [title |-> album, tq |-> FALSE]>>
    ELSE <<[title |-> album, tq |-> TRUE], [title |-> album, tq |-> FALSE]>>

\* The artist+album queries issued for the i-th artist.
IssuedForArtist(log, i) ==
    {k \in 1..Len(log) : log[k].place.grp = 1 /\ log[k].place.i = i}

\* The number of artist+album queries an artist gets when none matches: the
\* quoted and the unquoted artist with the album, and as many again for each
\* romanization there is, of the album, of the artist, and of both.
QueriesPerArtist(artist, album) ==
    2 + (IF Romanize(album) # <<>> THEN 2 ELSE 0)
      + (IF Romanize(artist) # <<>> THEN 2 ELSE 0)
      + (IF Romanize(artist) # <<>> /\ Romanize(album) # <<>> THEN 2 ELSE 0)

AlbumLogInOrder(r) ==
    /\ \A j \in 1..Len(r.log) :
          r.log[j].place.grp = 3 =>
              /\ \A i \in 1..Len(r.al) :
                    /\ \A k \in IssuedForArtist(r.log, i) : k < j
                    /\ Cardinality(IssuedForArtist(r.log, i))
                          = QueriesPerArtist(r.al[i], r.album)
              /\ \A k \in 1..Len(r.log) : k > j => r.log[k].place.grp = 3
    /\ Len(TitleOnlyIssued(r.log)) <= Len(TitleOnlyOrder(r.album))
    /\ \A k \in 1..Len(TitleOnlyIssued(r.log)) :
          /\ TitleOnlyIssued(r.log)[k].place.title = TitleOnlyOrder(r.album)[k].title
          /\ TitleOnlyIssued(r.log)[k].place.tq = TitleOnlyOrder(r.album)[k].tq
          /\ TitleOnlyIssued(r.log)[k].place.artist = <<>>
    /\ \A i \in 1..Len(r.al) : Cardinality(IssuedForArtist(r.log, i)) <= 8

\* C14: in the album cascade the album-title-only queries are issued only
\* after the artist+album queries of every artist, none of which matched, in
\* the order romanized quoted, romanized unquoted, original quoted, original
\* unquoted; the cascade stops at the first match; at most eight artist+album
\* queries are issued per artist.
C14_TitleOnlyLastInOrder ==
    [][\A c \in Goroutines :
          gor'[c].kind = "album" =>
              /\ AlbumLogInOrder(gor'[c])
              /\ (gor[c].pc = "scan" /\ gor'[c] # gor[c]
                    /\ AlbumAccepted(gor[c].album, gor[c].res) # {}) =>
                    /\ gor'[c].pc = "done"
                    /\ gor'[c].out.err = Nil
                    /\ gor'[c].log = gor[c].log
              /\ (gor[c].pc = "scan" /\ gor'[c] # gor[c]
                    /\ AlbumAccepted(gor[c].album, gor[c].res) = {}) =>
                    gor'[c].out \in {Running, NotFoundAlbum}
              /\ gor[c].pc = "done" => gor'[c] = gor[c]]_vars

\* Two artists, the first in another script, and an album in another script:
\* eight queries for the first artist, and the fourth title-only query, the
\* original title unquoted, matched.
C14_Witness ==
    /\ gor[1].kind = "album" /\ gor[1].pc = "done" /\ gor[1].out.err = Nil
    /\ Len(gor[1].al) = 2 /\ gor[1].album = <<"#">>
    /\ Cardinality(IssuedForArtist(gor[1].log, 1)) = 8
    /\ Len(TitleOnlyIssued(gor[1].log)) = 4
    /\ gor[1].log[Len(gor[1].log)].place.tq = FALSE

\* The albums of the page that have an image and a name that equals or
\* contains, ignoring case, the title used in the query of the place.
MatchesQueriedTitle(r) ==
    {j \in 1..Len(r.res) :
        NameMatches(r.res[j].Name, Place(r).title) /\ Len(r.res[j].Images) > 0}

\* C15: in the album cascade the winner of a query is the first album of the
\* page, in result order, whose name equals or contains, ignoring case, the
\* title used in that query and which has an image; albums without an image
\* are passed over.
C15_FirstMatchOfQueriedTitleWins ==
    [][\A c \in Goroutines :
          (gor[c].kind = "album" /\ gor[c].pc = "scan" /\ gor'[c] # gor[c]) =>
              IF MatchesQueriedTitle(gor[c]) # {}
              THEN /\ gor'[c].pc = "done"
                   /\ gor'[c].out =
                         Found(gor[c].res[Min(MatchesQueriedTitle(gor[c]))].Images[1])
              ELSE gor'[c].out \in {Running, NotFoundAlbum}]_vars

\* C19: when a search call of GetArtistImages or GetAlbumImages fails the
\* call ends at once with an error and no artwork: no further query is
\* issued, whatever the remaining queries would have found.
C19_SearchFailureEndsCascade ==
    [][\A c \in Goroutines :
          /\ (gor[c].pc = "search" /\ gor'[c] # gor[c] /\ gor'[c].pc # "scan") =>
                /\ gor'[c].pc = "done"
                /\ gor'[c].out.img = <<>>
                /\ "wraps" \in DOMAIN gor'[c].out.err
                /\ gor'[c].out.err.wraps = Errorf("searchEntity", "errSearch")
                /\ gor'[c].log = gor[c].log
          /\ gor[c].pc = "done" => gor'[c] = gor[c]]_vars

\* The first query of an album cascade failed while queries remained.
C19_Witness ==
    /\ gor[1].kind = "album" /\ gor[1].pc = "done"
    /\ gor[1].out = FailedAlbum("errSearch")
    /\ Len(gor[1].log) = 1 /\ Len(Plan(gor[1])) > 1

-----------------------------------------------------------------------------
\* Further properties of the token cache, checked under SpecToken.

\* C20: when the refresh ensureToken needs fails, searchEntity returns an
\* error without sending the search: the call ends with that error and no
\* query is sent after the failure.
C20_NoSearchAfterFailedRefresh ==
    [][\A c \in Goroutines :
          /\ (/\ gor[c].pc \in {"auth", "authReq"}
              /\ gor'[c].pc \notin {"auth", "authReq", "authStore"}) =>
                /\ gor'[c].pc = "done"
                /\ gor'[c].out.img = <<>>
                /\ "wraps" \in DOMAIN gor'[c].out.err
                /\ gor'[c].out.err.wraps.prefix = "searchEntity"
                /\ gor'[c].log = gor[c].log
          /\ gor[c].pc = "done" => gor'[c] = gor[c]]_vars

\* A refresh made while an old token was cached failed, and the call ended
\* without a search.
C20_Witness ==
    \E c \in Goroutines :
        /\ gor[c].pc = "done" /\ gor[c].out = Failed("errAuth")
        /\ gor[c].log = <<>> /\ accessToken # 0

\* C21: a failed authenticate call (no credentials, or a token request that
\* failed) leaves the cached token and the cached expiry unchanged; they are
\* written only after a successful token response, and then both are: the
\* token, and next the expiry by the same call.
C21_FailedAuthenticateWritesNothing ==
    [][/\ \A c \in Goroutines :
             /\ (gor[c].pc \in {"auth", "authReq"} /\ gor'[c].pc = "done") =>
                   /\ accessToken' = accessToken
                   /\ tokenExpiry' = tokenExpiry
             /\ (gor[c].pc = "authReq" /\ gor'[c].pc = "authStore") =>
                   /\ accessToken' = gor[c].req + 1
                   /\ tokenExpiry' = tokenExpiry
             /\ (gor[c].pc = "authStore" /\ gor'[c] # gor[c]) =>
                   /\ gor'[c].pc = "send"
                   /\ tokenExpiry' = now + gor[c].pend
                   /\ accessToken' = accessToken
       /\ accessToken' # accessToken =>
             \E c \in Goroutines : gor[c].pc = "authReq" /\ gor'[c].pc = "authStore"
       /\ tokenExpiry' # tokenExpiry =>
             \E c \in Goroutines : gor[c].pc = "authStore" /\ gor'[c].pc = "send"]_vars

\* One goroutine's refresh failed and the token of the constructor is still
\* cached with its expiry, while the other goroutine's refresh succeeded or
\* was not needed and its query is on its way.
C21_Witness ==
    /\ \E c \in Goroutines : gor[c].pc = "done" /\ gor[c].out = Failed("errAuth")
    /\ \E c \in Goroutines : gor[c].pc = "search"
    /\ accessToken = 1 /\ expiryOf = 1 /\ tokenExpiry \in ExpiresInValues
    /\ tokenCalls = 1

\* The combined OR queries of a call.
CombinedIssued(log) == {j \in 1..Len(log) : log[j].place.strat = 4}

\* The names given hold at least two that differ ignoring case.
TwoDistinctAliases(args) ==
    \E i, j \in 1..Len(args) : ~EqualFold(args[i], args[j])

\* C22: the combined OR query is issued at most once per GetArtistImages
\* call, after the per-alias strategies were tried for every alias without a
\* match (the romanized one for the aliases that have a romanization), and
\* only when at least two aliases differ ignoring case; with a single alias
\* the call reports not-found after the per-alias strategies.
C22_CombinedQueryOnceAndLast ==
    [][\A c \in Goroutines :
          gor'[c].kind = "artist" =>
              /\ Cardinality(CombinedIssued(gor'[c].log)) <= 1
              /\ \A j \in CombinedIssued(gor'[c].log) :
                    /\ j = Len(gor'[c].log)
                    /\ TwoDistinctAliases(gor'[c].args)
                    /\ gor'[c].log[j].query.terms = gor'[c].al
                    /\ \A i \in 1..Len(gor'[c].al) :
                          /\ \E k \in 1..(j - 1) :
                                gor'[c].log[k].place = [strat |-> 2, i |-> i]
                          /\ \E k \in 1..(j - 1) :
                                gor'[c].log[k].place = [strat |-> 3, i |-> i]
                          /\ Romanize(gor'[c].al[i]) # <<>> =>
                                \E k \in 1..(j - 1) :
                                    gor'[c].log[k].place = [strat |-> 1, i |-> i]
              /\ (/\ ~TwoDistinctAliases(gor[c].args)
                  /\ gor[c].pc = "scan" /\ gor'[c] # gor[c]
                  /\ gor[c].log[Len(gor[c].log)].place.strat = 3
                  /\ Accepted(gor[c].al, Place(gor[c]), gor[c].res) = {}) =>
                    (gor'[c].pc = "done" /\ gor'[c].out = NotFound)]_vars

\* Two aliases, one of another script: after the five per-alias queries the
\* combined query was issued and matched nothing.
C22_Witness ==
    /\ gor[1].kind = "artist" /\ gor[1].pc = "done" /\ gor[1].out = NotFound
    /\ gor[1].args = << <<"#">>, <<"o">> >>
    /\ Len(gor[1].log) = 6 /\ CombinedIssued(gor[1].log) = {6}

====
